---- MODULE Spec2Model ----
(***************************************************************************)
(* Traffic-Flow-Analysis: the lane ledger (lane_counter.py), the frame     *)
(* loop of VideoProcessor.run (video_processor.py), the CSV log (utils.py) *)
(* and the entry point (main.py).                                          *)
(***************************************************************************)
EXTENDS Integers, Sequences, FiniteSets, TLC

(* ---------------------------------------------------------------------- *)
(* Bounds and input sets                                                   *)
(* ---------------------------------------------------------------------- *)

\* longest tracked-object list handed to update_counts in SpecLedger
MaxObjs == 2

\* frames the input stream can deliver before cap.read() fails
MaxFrames == 2

\* track identifiers the tracker hands out
TrackIds == {1, 2}

\* bounding boxes [x1, y1, x2, y2] of tracked objects
BBoxes == { <<0, 2, 2, 4>>, <<2, 2, 4, 5>>, <<0, 0, 3, 1>> }

\* (width, height) of the input video
VideoSizes == { <<6, 5>> }

\* frame rates of the input video
FrameRates == { 2 }

None == "None"

\* the None assign_lane returns when no lane holds the centroid (lane ids are >= 1)
NoLane == 0

(* ---------------------------------------------------------------------- *)
(* main.py: define_dynamic_lanes                                           *)
(* ---------------------------------------------------------------------- *)

\* int(height * 0.4): the ratio 0.4 as 2/5, truncated (height >= 0)
StartY(height) == (height * 2) \div 5

\* the lanes dict as the sequence of its (lane_id, polygon) items, in
\* insertion order
define_dynamic_lanes(width, height, num_lanes) ==
    LET lane_width == width \div num_lanes
        start_y == StartY(height)
    IN  [ i \in 1..num_lanes |->
            [ lane_id |-> i,
              polygon |-> << <<(i - 1) * lane_width, start_y>>,
                             <<i * lane_width, start_y>>,
                             <<i * lane_width, height>>,
                             <<(i - 1) * lane_width, height>> >> ] ]

\* num_lanes=3 as main passes it
NumLanes == 3

\* a lanes dict whose polygons overlap: lane 1 reaches into lane 2's band
OverlappingLanes ==
    << [ lane_id |-> 1, polygon |-> << <<0, 2>>, <<3, 2>>, <<3, 5>>, <<0, 5>> >> ],
       [ lane_id |-> 2, polygon |-> << <<2, 2>>, <<4, 2>>, <<4, 5>>, <<2, 5>> >> ] >>

\* lanes dicts handed to LaneCounter(lanes) in SpecLedger
LaneConfigs == { define_dynamic_lanes(6, 5, NumLanes), OverlappingLanes }

LaneIds(lns) == { lns[i].lane_id : i \in 1..Len(lns) }

(* ---------------------------------------------------------------------- *)
(* lane_counter.py: assign_lane                                            *)
(* ---------------------------------------------------------------------- *)

\* int(v / 2): Python's int() truncates towards zero
Trunc2(v) == IF v >= 0 THEN v \div 2 ELSE -((-v) \div 2)

Centroid(bbox) == << Trunc2(bbox[1] + bbox[3]), Trunc2(bbox[2] + bbox[4]) >>

\* cv2.pointPolygonTest(polygon, pt, False): 1 inside, 0 on an edge,
\* -1 outside (integer contour, integer point)
PointPolygonTest(polygon, pt) ==
    LET n == Len(polygon)
        V0(i) == IF i = 1 THEN polygon[n] ELSE polygon[i - 1]
        V(i) == polygon[i]
        Skip(i) == \/ (V0(i)[2] <= pt[2] /\ V(i)[2] <= pt[2])
                   \/ (V0(i)[2] > pt[2] /\ V(i)[2] > pt[2])
                   \/ (V0(i)[1] < pt[1] /\ V(i)[1] < pt[1])
        Dist(i) == (pt[2] - V0(i)[2]) * (V(i)[1] - V0(i)[1])
                   - (pt[1] - V0(i)[1]) * (V(i)[2] - V0(i)[2])
        OnEdge(i) ==
            IF Skip(i)
            THEN /\ pt[2] = V(i)[2]
                 /\ \/ pt[1] = V(i)[1]
                    \/ /\ pt[2] = V0(i)[2]
                       /\ \/ (V0(i)[1] <= pt[1] /\ pt[1] <= V(i)[1])
                          \/ (V(i)[1] <= pt[1] /\ pt[1] <= V0(i)[1])
            ELSE Dist(i) = 0
        Crosses(i) ==
            /\ ~Skip(i)
            /\ (IF V(i)[2] < V0(i)[2] THEN -Dist(i) ELSE Dist(i)) > 0
        counter == Cardinality({ i \in 1..n : Crosses(i) })
    IN  IF \E i \in 1..n : OnEdge(i) THEN 0
        ELSE IF counter % 2 = 0 THEN -1 ELSE 1

\* faulty variant of AssignFrom: a centroid on a polygon's boundary is not
\* taken as inside
RECURSIVE AssignFrom_Strict(_, _, _)
AssignFrom_Strict(lns, pt, i) ==
    IF i > Len(lns) THEN NoLane
    ELSE IF PointPolygonTest(lns[i].polygon, pt) > 0 THEN lns[i].lane_id
    ELSE AssignFrom_Strict(lns, pt, i + 1)

\* the for loop of assign_lane from item i on: the first lane whose polygon
\* holds the centroid
RECURSIVE AssignFrom(_, _, _)
AssignFrom(lns, pt, i) ==
    IF i > Len(lns) THEN NoLane
    ELSE IF PointPolygonTest(lns[i].polygon, pt) >= 0 THEN lns[i].lane_id
    ELSE AssignFrom(lns, pt, i + 1)

\* assign_lane for every lanes dict and bounding box of the model, computed
\* once
AssignTable ==
    [ lns \in LaneConfigs \cup { define_dynamic_lanes(sz[1], sz[2], NumLanes) : sz \in VideoSizes } |->
        [ bbox \in BBoxes |-> AssignFrom(lns, Centroid(bbox), 1) ] ]

assign_lane(lns, bbox) == AssignTable[lns][bbox]

(* ---------------------------------------------------------------------- *)
(* lane_counter.py: update_counts                                          *)
(* ---------------------------------------------------------------------- *)

\* a tracked object as update_counts reads it
Objects == [ track_id : TrackIds, bbox : BBoxes ]

RECURSIVE SeqsUpTo(_, _)
SeqsUpTo(S, n) ==
    IF n = 0 THEN { <<>> }
    ELSE LET shorter == SeqsUpTo(S, n - 1)
         IN  shorter \cup { Append(s, x) : s \in shorter, x \in S }

\* every list of at most MaxObjs tracked objects, duplicates included
ObjLists == SeqsUpTo(Objects, MaxObjs)

\* the ledger as one value: counts and tracked_ids
Ledger(c, t) == [ counts |-> c, tracked_ids |-> t ]

\* LaneCounter.__init__
NewLedger(lns) ==
    Ledger([ l \in LaneIds(lns) |-> 0 ], [ l \in LaneIds(lns) |-> {} ])

\* faulty variants of the loop body of update_counts: no membership test, no
\* increment, first lane wins, and moving a track between lanes
UpdateOne_NoDedup(lns, led, obj) ==
    LET lane_id == assign_lane(lns, obj.bbox)
    IN  IF lane_id = NoLane THEN led
        ELSE Ledger([ led.counts EXCEPT ![lane_id] = @ + 1 ],
                    [ led.tracked_ids EXCEPT ![lane_id] = @ \cup { obj.track_id } ])

UpdateOne_NoIncrement(lns, led, obj) ==
    LET lane_id == assign_lane(lns, obj.bbox)
    IN  IF lane_id = NoLane THEN led
        ELSE IF obj.track_id \notin led.tracked_ids[lane_id]
        THEN Ledger(led.counts,
                    [ led.tracked_ids EXCEPT ![lane_id] = @ \cup { obj.track_id } ])
        ELSE led

UpdateOne_FirstLaneWins(lns, led, obj) ==
    LET lane_id == assign_lane(lns, obj.bbox)
    IN  IF lane_id = NoLane THEN led
        ELSE IF \A l \in DOMAIN led.tracked_ids : obj.track_id \notin led.tracked_ids[l]
        THEN Ledger([ led.counts EXCEPT ![lane_id] = @ + 1 ],
                    [ led.tracked_ids EXCEPT ![lane_id] = @ \cup { obj.track_id } ])
        ELSE led

UpdateOne_Move(lns, led, obj) ==
    LET lane_id == assign_lane(lns, obj.bbox)
    IN  IF lane_id = NoLane THEN led
        ELSE IF obj.track_id \notin led.tracked_ids[lane_id]
        THEN Ledger([ l \in DOMAIN led.counts |->
                        IF l = lane_id THEN led.counts[l] + 1
                        ELSE IF obj.track_id \in led.tracked_ids[l]
                        THEN led.counts[l] - 1 ELSE led.counts[l] ],
                    [ l \in DOMAIN led.tracked_ids |->
                        IF l = lane_id THEN led.tracked_ids[l] \cup { obj.track_id }
                        ELSE led.tracked_ids[l] \ { obj.track_id } ])
        ELSE led

\* one iteration of the for loop of update_counts
UpdateOne(lns, led, obj) ==
    LET lane_id == assign_lane(lns, obj.bbox)
    IN  IF lane_id = NoLane THEN led
        ELSE IF obj.track_id \notin led.tracked_ids[lane_id]
        THEN Ledger([ led.counts EXCEPT ![lane_id] = @ + 1 ],
                    [ led.tracked_ids EXCEPT ![lane_id] = @ \cup { obj.track_id } ])
        ELSE led

\* update_counts(tracked_objects) from element i on
RECURSIVE UpdateFrom(_, _, _, _)
UpdateFrom(lns, led, objs, i) ==
    IF i > Len(objs) THEN led
    ELSE UpdateFrom(lns, UpdateOne(lns, led, objs[i]), objs, i + 1)

update_counts(lns, led, objs) == UpdateFrom(lns, led, objs, 1)


(* ---------------------------------------------------------------------- *)
(* utils.py: CSVLogger.log                                                 *)
(* ---------------------------------------------------------------------- *)

\* int(timestamp) for timestamp = frame_idx / fps (both positive)
IntTimestamp(idx, rate) == idx \div rate

\* str(timedelta(seconds=s)) as its fields (hours, minutes, seconds)
TimeStr(s) == << s \div 3600, (s % 3600) \div 60, s % 60 >>

\* the row CSVLogger.log writes for csv_writer(track_id, lane_id, frame_idx, timestamp)
LogRow(vehicle_id, lane_id, idx, rate) ==
    [ VehicleID |-> vehicle_id, Lane |-> lane_id, Frame |-> idx,
      Timestamp |-> TimeStr(IntTimestamp(idx, rate)) ]

(* ---------------------------------------------------------------------- *)
(* State                                                                   *)
(* ---------------------------------------------------------------------- *)

VARIABLES
    lanes,            \* LaneCounter.lanes, as the sequence of the dict's items
    counts,           \* LaneCounter.counts
    tracked_ids,      \* LaneCounter.tracked_ids
    ncalls,           \* update_counts calls made so far
    tracked_objects,  \* the list last returned by tracker.update / handed to update_counts
    history,          \* the lists tracker.update returned, by frame
    video,            \* width, height and fps of the input video
    show_preview,     \* VideoProcessor.show_preview
    pc,               \* position in main / VideoProcessor.run
    frame_idx,        \* frame_idx of run
    det_frame,        \* frame index of the last detector.detect_vehicles call
    out,              \* frames written to the output video, by frame index
    log,              \* rows written to the CSV file after the header
    log_i,            \* position of the Step 5 loop in tracked_objects
    pbar_n,           \* pbar.update(1) calls: frames whose body ran to its end
    polls,            \* cv2.waitKey calls made
    exc,              \* the exception in flight
    exit_path,        \* how the frame loop was left
    run_result,       \* whether run returned or raised
    opened,           \* resources acquired and not yet released
    released,         \* release / close calls made, per resource
    summary,          \* what print_summary printed
    call              \* a function applied on its own: name, arguments, result

vars == << lanes, counts, tracked_ids, ncalls, tracked_objects, history, video,
           show_preview, pc, frame_idx, det_frame, out, log, log_i, pbar_n, polls,
           exc, exit_path, run_result, opened, released, summary, call >>

ledgerVars == << lanes, counts, tracked_ids, ncalls >>
runVars == << frame_idx, det_frame, out, log, log_i, pbar_n, polls >>
exitVars == << exc, exit_path, run_result >>
resVars == << opened, released >>

Resources == { "cap", "out", "pbar", "windows", "csv" }

\* the lists tracker.update can return: SORT gives each live track one box
TrackerOutputs ==
    { s \in SeqsUpTo(Objects, Cardinality(TrackIds)) :
        \A i, j \in 1..Len(s) : i # j => s[i].track_id # s[j].track_id }

(* ---------------------------------------------------------------------- *)
(* SpecLedger: a LaneCounter driven by arbitrary update_counts calls       *)
(* ---------------------------------------------------------------------- *)

\* no function applied on its own
NoCall == [ fn |-> "none", args |-> <<>>, done |-> FALSE, result |-> <<>> ]

Idle ==
    /\ tracked_objects = <<>>
    /\ history = <<>>
    /\ frame_idx = 0
    /\ det_frame = 0
    /\ out = <<>>
    /\ log = <<>>
    /\ log_i = 1
    /\ pbar_n = 0
    /\ polls = 0
    /\ exc = None
    /\ exit_path = None
    /\ run_result = None
    /\ opened = {}
    /\ released = [ r \in Resources |-> 0 ]
    /\ summary = <<>>

InitLedger ==
    /\ lanes \in LaneConfigs
    /\ counts = NewLedger(lanes).counts
    /\ tracked_ids = NewLedger(lanes).tracked_ids
    /\ ncalls = 0
    /\ video \in [ width : {6}, height : {5}, fps : FrameRates ]
    /\ show_preview = TRUE
    /\ pc = "ledger"
    /\ call = NoCall
    /\ Idle

\* counter.update_counts(objs) on a constructed LaneCounter
CallUpdateCounts ==
    /\ pc = "ledger"
    /\ ncalls < MaxFrames
    /\ \E objs \in ObjLists :
         LET led == update_counts(lanes, Ledger(counts, tracked_ids), objs)
         IN  /\ counts' = led.counts
             /\ tracked_ids' = led.tracked_ids
             /\ tracked_objects' = objs
    /\ ncalls' = ncalls + 1
    /\ UNCHANGED << lanes, history, video, call, show_preview, pc, runVars, exitVars,
                    resVars, summary >>

NextLedger == CallUpdateCounts

SpecLedger == InitLedger /\ [][NextLedger]_vars


(* ---------------------------------------------------------------------- *)
(* Spec: main() and VideoProcessor.run                                     *)
(* ---------------------------------------------------------------------- *)

Init ==
    /\ lanes = <<>>
    /\ counts = <<>>
    /\ tracked_ids = <<>>
    /\ ncalls = 0
    /\ video \in { [ width |-> sz[1], height |-> sz[2], fps |-> r ] :
                     sz \in VideoSizes, r \in FrameRates }
    /\ show_preview \in BOOLEAN
    /\ pc = "m_start"
    /\ call = NoCall
    /\ Idle

\* main Step 2: define_dynamic_lanes, which raises ValueError when the video
\* cannot be opened
MainDefineLanes ==
    /\ pc = "m_start"
    /\ \/ /\ lanes' = define_dynamic_lanes(video.width, video.height, NumLanes)
          /\ pc' = "m_detector"
          /\ UNCHANGED exc
       \/ /\ exc' = "ValueError"
          /\ pc' = "m_crashed"
          /\ UNCHANGED lanes
    /\ UNCHANGED << counts, tracked_ids, ncalls, tracked_objects, history, video, call,
                    show_preview, runVars, exit_path, run_result, resVars, summary >>

\* main Step 3: VehicleDetector(), which raises FileNotFoundError when the
\* model weights are missing
MainDetector ==
    /\ pc = "m_detector"
    /\ \/ pc' = "m_counter" /\ UNCHANGED exc
       \/ exc' = "FileNotFoundError" /\ pc' = "m_crashed"
    /\ UNCHANGED << ledgerVars, tracked_objects, history, video, call, show_preview,
                    runVars, exit_path, run_result, resVars, summary >>

\* main Step 3: VehicleTracker() and LaneCounter(lanes)
MainLaneCounter ==
    /\ pc = "m_counter"
    /\ counts' = NewLedger(lanes).counts
    /\ tracked_ids' = NewLedger(lanes).tracked_ids
    /\ pc' = "m_logger"
    /\ UNCHANGED << lanes, ncalls, tracked_objects, history, video, call, show_preview,
                    runVars, exitVars, resVars, summary >>

\* main Step 3: CSVLogger("outputs/results.csv") opens the file and writes the header
MainCSVLogger ==
    /\ pc = "m_logger"
    /\ opened' = opened \cup { "csv" }
    /\ pc' = "m_processor"
    /\ UNCHANGED << ledgerVars, tracked_objects, history, video, call, show_preview,
                    runVars, exitVars, released, summary >>

\* main Step 3: VideoProcessor.__init__
MainProcessor ==
    /\ pc = "m_processor"
    /\ \/ \* input path missing
          /\ exc' = "FileNotFoundError" /\ pc' = "m_crashed" /\ UNCHANGED opened
       \/ \* cap.isOpened() is false
          /\ exc' = "ValueError" /\ pc' = "m_crashed" /\ UNCHANGED opened
       \/ \* out.isOpened() is false: the capture stays open
          /\ exc' = "RuntimeError" /\ pc' = "m_crashed"
          /\ opened' = opened \cup { "cap" }
       \/ /\ opened' = opened \cup { "cap", "out" }
          /\ pc' = "run_start"
          /\ UNCHANGED exc
    /\ UNCHANGED << ledgerVars, tracked_objects, history, video, call, show_preview,
                    runVars, exit_path, run_result, released, summary >>

\* run: frame_idx = 0 and the tqdm progress bar
RunStart ==
    /\ pc = "run_start"
    /\ frame_idx' = 0
    /\ opened' = opened \cup { "pbar" }
    /\ pc' = "read"
    /\ UNCHANGED << ledgerVars, tracked_objects, history, video, call, show_preview,
                    det_frame, out, log, log_i, pbar_n, polls, exitVars, released,
                    summary >>

\* faulty variant of Read: a failed read does not leave the loop
Read_NoBreak ==
    /\ pc = "read"
    /\ \/ /\ frame_idx < MaxFrames
          /\ frame_idx' = frame_idx + 1
          /\ pc' = "detect"
          /\ UNCHANGED exit_path
       \/ /\ exit_path' = "eos"
          /\ pc' = "read"
          /\ UNCHANGED frame_idx
    /\ UNCHANGED << ledgerVars, tracked_objects, history, video, call, show_preview,
                    det_frame, out, log, log_i, pbar_n, polls, exc, run_result,
                    resVars, summary >>

\* ret, frame = self.cap.read(); break when not ret; frame_idx += 1
Read ==
    /\ pc = "read"
    /\ \/ /\ frame_idx < MaxFrames
          /\ frame_idx' = frame_idx + 1
          /\ pc' = "detect"
          /\ UNCHANGED exit_path
       \/ /\ exit_path' = "eos"
          /\ pc' = "finally"
          /\ UNCHANGED frame_idx
    /\ UNCHANGED << ledgerVars, tracked_objects, history, video, call, show_preview,
                    det_frame, out, log, log_i, pbar_n, polls, exc, run_result,
                    resVars, summary >>

\* Step 1: detector.detect_vehicles(frame)
Detect ==
    /\ pc = "detect"
    /\ det_frame' = frame_idx
    /\ pc' = "track"
    /\ UNCHANGED << ledgerVars, tracked_objects, history, video, call, show_preview,
                    frame_idx, out, log, log_i, pbar_n, polls, exitVars, resVars,
                    summary >>

\* Step 2: tracked_objects = tracker.update(detections)
Track ==
    /\ pc = "track"
    /\ tracked_objects' \in TrackerOutputs
    /\ history' = Append(history, tracked_objects')
    /\ pc' = "process_frame"
    /\ UNCHANGED << ledgerVars, video, call, show_preview, runVars, exitVars, resVars,
                    summary >>

\* faulty variant of ProcessFrame: the frame is drawn but the ledger is not
\* updated
ProcessFrame_NoCount ==
    /\ pc = "process_frame"
    /\ ncalls' = ncalls + 1
    /\ pc' = "write"
    /\ UNCHANGED << lanes, counts, tracked_ids, tracked_objects, history, video, call,
                    show_preview, runVars, exitVars, resVars, summary >>

\* Step 3: process_frame draws the boxes and calls lane_counter.update_counts
ProcessFrame ==
    /\ pc = "process_frame"
    /\ LET led == update_counts(lanes, Ledger(counts, tracked_ids), tracked_objects)
       IN  /\ counts' = led.counts
           /\ tracked_ids' = led.tracked_ids
    /\ ncalls' = ncalls + 1
    /\ pc' = "write"
    /\ UNCHANGED << lanes, tracked_objects, history, video, call, show_preview, runVars,
                    exitVars, resVars, summary >>

\* Step 4: self.out.write(annotated_frame)
Write ==
    /\ pc = "write"
    /\ out' = Append(out, frame_idx)
    /\ pc' = "preview"
    /\ UNCHANGED << ledgerVars, tracked_objects, history, video, call, show_preview,
                    frame_idx, det_frame, log, log_i, pbar_n, polls, exitVars,
                    resVars, summary >>

\* faulty variant of Preview: the quit key is seen but the loop goes on
Preview_NoBreak ==
    /\ pc = "preview"
    /\ IF show_preview
       THEN /\ polls' = polls + 1
            /\ \/ exit_path' = "quit"
               \/ UNCHANGED exit_path
       ELSE UNCHANGED << polls, exit_path >>
    /\ pc' = "log"
    /\ log_i' = 1
    /\ UNCHANGED << ledgerVars, tracked_objects, history, video, call, show_preview,
                    frame_idx, det_frame, out, log, pbar_n, exc, run_result,
                    resVars, summary >>

\* Step 4.5: imshow and waitKey when show_preview; 'q' breaks out of the loop
Preview ==
    /\ pc = "preview"
    /\ IF show_preview
       THEN /\ polls' = polls + 1
            /\ \/ /\ exit_path' = "quit"
                  /\ pc' = "finally"
                  /\ UNCHANGED log_i
               \/ /\ pc' = "log"
                  /\ log_i' = 1
                  /\ UNCHANGED exit_path
       ELSE /\ pc' = "log"
            /\ log_i' = 1
            /\ UNCHANGED << polls, exit_path >>
    /\ UNCHANGED << ledgerVars, tracked_objects, history, video, call, show_preview,
                    frame_idx, det_frame, out, log, pbar_n, exc, run_result,
                    resVars, summary >>

\* faulty variant of LogStep: the row carries a 0-based frame index
LogStep_ZeroBased ==
    /\ pc = "log"
    /\ log_i <= Len(tracked_objects)
    /\ LET obj == tracked_objects[log_i]
           lane_id == assign_lane(lanes, obj.bbox)
       IN  log' = IF lane_id # NoLane
                  THEN Append(log, LogRow(obj.track_id, lane_id, frame_idx - 1, video.fps))
                  ELSE log
    /\ log_i' = log_i + 1
    /\ UNCHANGED << ledgerVars, tracked_objects, history, video, call, show_preview, pc,
                    frame_idx, det_frame, out, pbar_n, polls, exitVars, resVars,
                    summary >>

\* Step 5: one iteration of the loop over tracked_objects
LogStep ==
    /\ pc = "log"
    /\ log_i <= Len(tracked_objects)
    /\ LET obj == tracked_objects[log_i]
           lane_id == assign_lane(lanes, obj.bbox)
       IN  log' = IF lane_id # NoLane
                  THEN Append(log, LogRow(obj.track_id, lane_id, frame_idx, video.fps))
                  ELSE log
    /\ log_i' = log_i + 1
    /\ UNCHANGED << ledgerVars, tracked_objects, history, video, call, show_preview, pc,
                    frame_idx, det_frame, out, pbar_n, polls, exitVars, resVars,
                    summary >>

\* the Step 5 loop is over: pbar.update(1) and back to the top of the while loop
PbarUpdate ==
    /\ pc = "log"
    /\ log_i > Len(tracked_objects)
    /\ pbar_n' = pbar_n + 1
    /\ pc' = "read"
    /\ UNCHANGED << ledgerVars, tracked_objects, history, video, call, show_preview,
                    frame_idx, det_frame, out, log, log_i, polls, exitVars, resVars,
                    summary >>

\* positions inside the while loop
LoopPcs == { "read", "detect", "track", "process_frame", "write", "preview", "log" }

\* a KeyboardInterrupt is delivered while run is in its frame loop
Interrupt ==
    /\ pc \in LoopPcs
    /\ exc' = "KeyboardInterrupt"
    /\ pc' = "except"
    /\ UNCHANGED << ledgerVars, tracked_objects, history, video, call, show_preview,
                    runVars, exit_path, run_result, resVars, summary >>

\* the detector, the tracker, the ledger, the writer or the log callback raises
Raise ==
    /\ \/ pc \in { "detect", "track", "process_frame", "write" }
       \/ /\ pc = "log"
          /\ log_i <= Len(tracked_objects)
          /\ assign_lane(lanes, tracked_objects[log_i].bbox) # NoLane
    /\ exc' = "Exception"
    /\ exit_path' = "exception"
    /\ pc' = "finally"
    /\ UNCHANGED << ledgerVars, tracked_objects, history, video, call, show_preview,
                    runVars, run_result, resVars, summary >>

\* except KeyboardInterrupt: print and fall through to finally
Except ==
    /\ pc = "except"
    /\ exc' = None
    /\ exit_path' = "interrupt"
    /\ pc' = "finally"
    /\ UNCHANGED << ledgerVars, tracked_objects, history, video, call, show_preview,
                    runVars, run_result, resVars, summary >>

\* faulty variant of Finally: the releases follow the try statement instead of being
\* its finally clause, so an exception in flight skips them
Finally_AfterTry ==
    /\ pc = "finally"
    /\ IF exc = None
       THEN /\ released' = [ released EXCEPT !["cap"] = @ + 1, !["out"] = @ + 1,
                                             !["pbar"] = @ + 1, !["windows"] = @ + 1 ]
            /\ opened' = opened \ { "cap", "out", "pbar" }
       ELSE UNCHANGED << released, opened >>
    /\ pc' = "run_exit"
    /\ UNCHANGED << ledgerVars, tracked_objects, history, video, call, show_preview,
                    runVars, exitVars, summary >>

\* finally: cap.release(), out.release(), pbar.close(), cv2.destroyAllWindows()
Finally ==
    /\ pc = "finally"
    /\ released' = [ released EXCEPT !["cap"] = @ + 1, !["out"] = @ + 1,
                                     !["pbar"] = @ + 1, !["windows"] = @ + 1 ]
    /\ opened' = opened \ { "cap", "out", "pbar" }
    /\ pc' = "run_exit"
    /\ UNCHANGED << ledgerVars, tracked_objects, history, video, call, show_preview,
                    runVars, exitVars, summary >>

\* faulty variant of RunExit: a handler that swallows every exception
RunExit_Swallow ==
    /\ pc = "run_exit"
    /\ run_result' = "returned"
    /\ exc' = None
    /\ pc' = "m_close"
    /\ UNCHANGED << ledgerVars, tracked_objects, history, video, call, show_preview,
                    runVars, exit_path, resVars, summary >>

\* run ends: an exception still in flight propagates to main, which has no
\* handler; otherwise run returns to main Step 5
RunExit ==
    /\ pc = "run_exit"
    /\ IF exc # None
       THEN run_result' = "raised" /\ pc' = "m_crashed"
       ELSE run_result' = "returned" /\ pc' = "m_close"
    /\ UNCHANGED << ledgerVars, tracked_objects, history, video, call, show_preview,
                    runVars, exc, exit_path, resVars, summary >>

\* main Step 5: csv_logger.close()
MainClose ==
    /\ pc = "m_close"
    /\ released' = [ released EXCEPT !["csv"] = @ + 1 ]
    /\ opened' = opened \ { "csv" }
    /\ pc' = "m_summary"
    /\ UNCHANGED << ledgerVars, tracked_objects, history, video, call, show_preview,
                    runVars, exitVars, summary >>

\* main Step 5: print_summary(lane_counter.counts), in the dict's order
MainSummary ==
    /\ pc = "m_summary"
    /\ summary' = [ i \in 1..Len(lanes) |-> << lanes[i].lane_id, counts[lanes[i].lane_id] >> ]
    /\ pc' = "done"
    /\ UNCHANGED << ledgerVars, tracked_objects, history, video, call, show_preview,
                    runVars, exitVars, resVars >>

Next ==
    \/ MainDefineLanes \/ MainDetector \/ MainLaneCounter \/ MainCSVLogger
    \/ MainProcessor \/ RunStart \/ Read \/ Detect \/ Track \/ ProcessFrame
    \/ Write \/ Preview \/ LogStep \/ PbarUpdate \/ Interrupt \/ Raise \/ Except
    \/ Finally \/ RunExit \/ MainClose \/ MainSummary

Spec == Init /\ [][Next]_vars

\* the steps the program takes by itself: every action but the delivery of a
\* KeyboardInterrupt, which is the user's
Step ==
    \/ MainDefineLanes \/ MainDetector \/ MainLaneCounter \/ MainCSVLogger
    \/ MainProcessor \/ RunStart \/ Read \/ Detect \/ Track \/ ProcessFrame
    \/ Write \/ Preview \/ LogStep \/ PbarUpdate \/ Raise \/ Except
    \/ Finally \/ RunExit \/ MainClose \/ MainSummary

\* the interpreter keeps executing: every call of the loop returns or raises,
\* so a step that can be taken is taken
SpecFair == Init /\ [][Next]_vars /\ WF_vars(Step)

(* ---------------------------------------------------------------------- *)
(* SpecPure: the functions of the repository applied on their own          *)
(* ---------------------------------------------------------------------- *)

\* a lanes dict built in descending identifier order, with overlapping polygons
DescendingLanes ==
    << [ lane_id |-> 2, polygon |-> << <<2, 2>>, <<4, 2>>, <<4, 5>>, <<2, 5>> >> ],
       [ lane_id |-> 1, polygon |-> << <<0, 2>>, <<3, 2>>, <<3, 5>>, <<0, 5>> >> ] >>

\* a lanes dict with one triangular lane
TriangleLanes ==
    << [ lane_id |-> 1, polygon |-> << <<0, 5>>, <<3, 2>>, <<6, 5>> >> ] >>

\* lanes dicts handed to assign_lane in SpecPure
AnyLanes == LaneConfigs \cup { DescendingLanes, TriangleLanes }

\* coordinates of the bounding boxes handed to assign_lane in SpecPure
GridCoords == -1..7

GridBoxes ==
    { << x1, y1, x2, y2 >> : x1 \in GridCoords, y1 \in GridCoords,
                             x2 \in GridCoords, y2 \in GridCoords }

\* a function and its arguments, not yet applied
Pending(f, a) == [ fn |-> f, args |-> a, done |-> FALSE, result |-> <<>> ]

AssignInputs ==
    { Pending("assign_lane", << lns, b >>) :
        lns \in AnyLanes, b \in { g \in GridBoxes : g[1] < g[3] /\ g[2] < g[4] } }

\* a value that may be None: <<>> is None, << v >> is v
Null == <<>>

Some(v) == << v >>

Max2(a, b) == IF a >= b THEN a ELSE b

Min2(a, b) == IF a <= b THEN a ELSE b

\* faulty variant of _compute_iou: widths and heights taken as x2 - x1 and
\* y2 - y1
_compute_iou_NoPlusOne(boxA, boxB) ==
    LET xA == Max2(boxA[1], boxB[1])
        yA == Max2(boxA[2], boxB[2])
        xB == Min2(boxA[3], boxB[3])
        yB == Min2(boxA[4], boxB[4])
        interArea == Max2(0, xB - xA) * Max2(0, yB - yA)
        boxAArea == (boxA[3] - boxA[1]) * (boxA[4] - boxA[2])
        boxBArea == (boxB[3] - boxB[1]) * (boxB[4] - boxB[2])
    IN  IF interArea = 0
        THEN [ num |-> 0, den |-> 1, divided |-> FALSE ]
        ELSE [ num |-> interArea, den |-> boxAArea + boxBArea - interArea,
               divided |-> TRUE ]

\* VehicleTracker._compute_iou: the quotient is kept as numerator and
\* denominator; divided tells whether the division of the last line ran
_compute_iou(boxA, boxB) ==
    LET xA == Max2(boxA[1], boxB[1])
        yA == Max2(boxA[2], boxB[2])
        xB == Min2(boxA[3], boxB[3])
        yB == Min2(boxA[4], boxB[4])
        interArea == Max2(0, xB - xA + 1) * Max2(0, yB - yA + 1)
        boxAArea == (boxA[3] - boxA[1] + 1) * (boxA[4] - boxA[2] + 1)
        boxBArea == (boxB[3] - boxB[1] + 1) * (boxB[4] - boxB[2] + 1)
    IN  IF interArea = 0
        THEN [ num |-> 0, den |-> 1, divided |-> FALSE ]
        ELSE [ num |-> interArea, den |-> boxAArea + boxBArea - interArea,
               divided |-> TRUE ]

\* iou > 0.5
ExceedsHalf(iou) == 2 * iou.num > iou.den

\* faulty variant of MatchFrom: an IoU of exactly 0.5 matches
RECURSIVE MatchFrom_AtLeastHalf(_, _, _)
MatchFrom_AtLeastHalf(detections, box, j) ==
    IF j > Len(detections) THEN Null
    ELSE IF LET iou == _compute_iou(detections[j].bbox, box)
            IN  2 * iou.num >= iou.den
         THEN Some(detections[j])
    ELSE MatchFrom_AtLeastHalf(detections, box, j + 1)

\* the inner loop of update from detection j on: the first detection whose
\* IoU with the tracked box exceeds 0.5, or None
RECURSIVE MatchFrom(_, _, _)
MatchFrom(detections, box, j) ==
    IF j > Len(detections) THEN Null
    ELSE IF ExceedsHalf(_compute_iou(detections[j].bbox, box))
         THEN Some(detections[j])
    ELSE MatchFrom(detections, box, j + 1)

\* the dict appended to tracked_objects for one track
TrackedObject(track, detections) ==
    LET match == MatchFrom(detections, track.bbox, 1)
    IN  [ track_id   |-> track.track_id,
          bbox       |-> track.bbox,
          confidence |-> IF match # Null THEN Some(match[1].confidence) ELSE Null,
          class_id   |-> IF match # Null THEN Some(match[1].class_id) ELSE Null,
          class_name |-> IF match # Null THEN Some(match[1].class_name) ELSE Null ]

\* the loop of update over the tracks the external tracker returned
tracker_update(detections, tracks) ==
    [ i \in 1..Len(tracks) |-> TrackedObject(tracks[i], detections) ]

\* detection boxes; against the tracked box <<0, 0, 1, 1>> their IoU is
\* 1, 2/3, 1/2 and 0, and <<0, 0, 10, 10>> against <<1, 1, 11, 11>> is 100/142
DetBoxes == { <<0, 0, 1, 1>>, <<0, 0, 1, 2>>, <<0, 0, 3, 1>>, <<5, 5, 6, 6>>,
              <<0, 0, 10, 10>> }

\* boxes the external tracker returns
TrackBoxes == { <<0, 0, 1, 1>>, <<1, 1, 11, 11>> }

\* detections as detect_vehicles returns them; confidences in thousandths
Detections ==
    { [ bbox |-> b, confidence |-> c.conf, class_id |-> c.cls.class_id,
        class_name |-> c.cls.class_name ] :
        b \in DetBoxes,
        c \in { [ conf |-> 904, cls |-> [ class_id |-> 2, class_name |-> "car" ] ],
                [ conf |-> 0, cls |-> [ class_id |-> 7, class_name |-> "truck" ] ] } }

\* rows the external tracker returns
Tracks == [ track_id : { 1, 7 }, bbox : TrackBoxes ]

UpdateInputs ==
    { Pending("update", << d, t >>) : d \in SeqsUpTo(Detections, MaxObjs),
                                      t \in SeqsUpTo(Tracks, MaxObjs) }

\* coordinates of the boxes handed to _compute_iou in SpecPure
IouCoords == 0..3

IouBoxes ==
    { b \in IouCoords \X IouCoords \X IouCoords \X IouCoords :
        b[1] < b[3] /\ b[2] < b[4] }

IouInputs == { Pending("_compute_iou", << a, b >>) : a \in IouBoxes, b \in IouBoxes }

\* frame sizes and lane numbers handed to define_dynamic_lanes in SpecPure
FrameWidths == 3..9

FrameHeights == { 5, 6 }

LaneNumbers == 1..3

DefineInputs ==
    { Pending("define_dynamic_lanes", << w, h, n >>) :
        w \in FrameWidths, h \in FrameHeights, n \in LaneNumbers }

\* dict.get(key, default): the default only when the key is absent
Get(obj, key, default) == IF key \in DOMAIN obj THEN obj[key] ELSE default

\* float(value or 0.0), in thousandths: None and 0.0 are falsy
FloatOrZero(value) == IF value = Null \/ value = Some(0) THEN 0 ELSE value[1]

\* f"{conf:.2f}": thousandths rounded to hundredths, as integer part and two
\* decimals
Format2f(conf) ==
    LET h == (conf + 5) \div 10
    IN  << h \div 100, h % 100 >>

\* f"{class_name}": str of the value, "None" for None
Str(value) == IF value = Null THEN "None" ELSE value[1]

\* the text process_frame draws for one tracked object:
\* f"ID {track_id} {class_name} {conf:.2f}"
Label(obj) ==
    LET track_id == obj.track_id
        class_name == Get(obj, "class_name", Some("vehicle"))
        conf == FloatOrZero(Get(obj, "confidence", Null))
    IN  << track_id, Str(class_name), Format2f(conf) >>

\* the tracked objects update builds from one track and at most one detection
LabelInputs ==
    { Pending("label", << TrackedObject(t, d) >>) :
        t \in Tracks, d \in SeqsUpTo(Detections, 1) }

PureInputs ==
    AssignInputs \cup UpdateInputs \cup IouInputs \cup DefineInputs \cup LabelInputs

InitPure ==
    /\ call \in PureInputs
    /\ lanes = <<>>
    /\ counts = <<>>
    /\ tracked_ids = <<>>
    /\ ncalls = 0
    /\ video \in [ width : {6}, height : {5}, fps : FrameRates ]
    /\ show_preview = TRUE
    /\ pc = "pure"
    /\ Idle

\* what no action of SpecPure changes
pureFrame == << ledgerVars, tracked_objects, history, video, show_preview, pc,
                runVars, exitVars, resVars, summary >>

\* LaneCounter(lanes).assign_lane(bbox)
ApplyAssignLane ==
    /\ pc = "pure"
    /\ call.fn = "assign_lane"
    /\ ~call.done
    /\ call' = [ call EXCEPT !.done = TRUE,
                             !.result = AssignFrom(call.args[1], Centroid(call.args[2]), 1) ]
    /\ UNCHANGED pureFrame

\* VehicleTracker.update(detections), the external tracker returning tracks
ApplyUpdate ==
    /\ pc = "pure"
    /\ call.fn = "update"
    /\ ~call.done
    /\ call' = [ call EXCEPT !.done = TRUE,
                             !.result = tracker_update(call.args[1], call.args[2]) ]
    /\ UNCHANGED pureFrame

\* VehicleTracker._compute_iou(boxA, boxB)
ApplyComputeIou ==
    /\ pc = "pure"
    /\ call.fn = "_compute_iou"
    /\ ~call.done
    /\ call' = [ call EXCEPT !.done = TRUE,
                             !.result = _compute_iou(call.args[1], call.args[2]) ]
    /\ UNCHANGED pureFrame

\* define_dynamic_lanes for a video of the given width and height
ApplyDefineLanes ==
    /\ pc = "pure"
    /\ call.fn = "define_dynamic_lanes"
    /\ ~call.done
    /\ call' = [ call EXCEPT !.done = TRUE,
                             !.result = define_dynamic_lanes(call.args[1], call.args[2],
                                                             call.args[3]) ]
    /\ UNCHANGED pureFrame

\* process_frame: the label of one tracked object
ApplyLabel ==
    /\ pc = "pure"
    /\ call.fn = "label"
    /\ ~call.done
    /\ call' = [ call EXCEPT !.done = TRUE, !.result = Label(call.args[1]) ]
    /\ UNCHANGED pureFrame

NextPure ==
    \/ ApplyAssignLane
    \/ ApplyUpdate
    \/ ApplyComputeIou
    \/ ApplyDefineLanes
    \/ ApplyLabel

SpecPure == InitPure /\ [][NextPure]_vars

(* ---------------------------------------------------------------------- *)
(* Claims about the lane ledger (checked under SpecLedger)                 *)
(* ---------------------------------------------------------------------- *)

\* the track identifiers the list objs presents with a centroid in lane l
PresentedIn(objs, l) ==
    { objs[i].track_id : i \in { j \in 1..Len(objs) : assign_lane(lanes, objs[j].bbox) = l } }

\* the lanes whose counted set holds track identifier t
LanesOf(t) == { l \in DOMAIN tracked_ids : t \in tracked_ids[l] }

\* a step that is one update_counts call; tracked_objects' is its argument
IsUpdateCall == ncalls' = ncalls + 1

RECURSIVE SumCounts(_, _)
SumCounts(c, S) ==
    IF S = {} THEN 0
    ELSE LET l == CHOOSE x \in S : TRUE
         IN  c[l] + SumCounts(c, S \ { l })

\* C1 as stated (first-attribution-wins): once track T has been counted in
\* lane L, no later update_counts call adds T to the set of another lane, so
\* every track identifier stays in the counted set of at most one lane.
C1_FirstAttributionWins ==
    [][ IsUpdateCall =>
          \A t \in TrackIds :
             LanesOf(t) # {} =>
                { l \in DOMAIN tracked_ids' : t \in tracked_ids'[l] } = LanesOf(t) ]_vars

\* C1 amended (per-lane attribution): deduplication is per lane only. Once
\* track T has been counted in lane L, a later call that presents T with its
\* centroid in a different lane M, where T is not yet counted, adds T to M's
\* set and raises M's count by one for it, and T stays in L's set.
C1_PerLaneAttribution ==
    [][ IsUpdateCall =>
          \A t \in TrackIds : \A m \in DOMAIN tracked_ids :
             ( /\ t \in PresentedIn(tracked_objects', m)
               /\ t \notin tracked_ids[m]
               /\ LanesOf(t) # {} )
             => /\ t \in tracked_ids'[m]
                /\ counts'[m] = counts[m]
                      + Cardinality(PresentedIn(tracked_objects', m) \ tracked_ids[m])
                /\ \A l \in LanesOf(t) : t \in tracked_ids'[l] ]_vars

\* C1 witness: a track counted in two lanes, each count raised for it
C1_Witness ==
    \E t \in TrackIds : \E l, m \in DOMAIN tracked_ids :
       /\ l # m
       /\ t \in tracked_ids[l] /\ t \in tracked_ids[m]
       /\ counts[l] >= 1 /\ counts[m] >= 1

\* C2 (idempotent attribution): a call that presents in lane L only track
\* identifiers already counted in L leaves L's count and L's set unchanged,
\* and within one call a lane's count rises by one per new identifier, however
\* often the list repeats it.
C2_Idempotent ==
    [][ IsUpdateCall =>
          \A l \in DOMAIN tracked_ids :
             LET P == PresentedIn(tracked_objects', l)
             IN  /\ P \subseteq tracked_ids[l]
                      => counts'[l] = counts[l] /\ tracked_ids'[l] = tracked_ids[l]
                 /\ counts'[l] <= counts[l] + Cardinality(P \ tracked_ids[l]) ]_vars

\* C2 witness: after the second call, whose list names track t twice in lane
\* l, lane l has counted t once
C2_Witness ==
    /\ ncalls = 2
    /\ \E l \in DOMAIN tracked_ids : \E t \in TrackIds :
          /\ \E i, j \in 1..Len(tracked_objects) :
                /\ i # j
                /\ tracked_objects[i].track_id = t /\ tracked_objects[j].track_id = t
                /\ assign_lane(lanes, tracked_objects[i].bbox) = l
                /\ assign_lane(lanes, tracked_objects[j].bbox) = l
          /\ tracked_ids[l] = { t }
          /\ counts[l] = 1

\* C3 (count = set size): for every lane, counts[L] is the number of elements
\* of tracked_ids[L].
C3_CountIsSetSize ==
    \A l \in DOMAIN counts : counts[l] = Cardinality(tracked_ids[l])

\* C3 witness: a lane that has counted two tracks
C3_Witness ==
    \E l \in DOMAIN counts : counts[l] = 2 /\ Cardinality(tracked_ids[l]) = 2

\* C4 (monotone ledger): no count decreases, no identifier leaves a set, the
\* counts rise by at most one per tracked object of the call, and a call
\* whose objects are all in no lane changes nothing.
C4_Monotone ==
    [][ /\ \A l \in DOMAIN counts :
             /\ counts'[l] >= counts[l]
             /\ tracked_ids[l] \subseteq tracked_ids'[l]
        /\ IsUpdateCall =>
             /\ SumCounts(counts', DOMAIN counts) - SumCounts(counts, DOMAIN counts)
                   <= Len(tracked_objects')
             /\ (\A i \in 1..Len(tracked_objects') :
                     assign_lane(lanes, tracked_objects'[i].bbox) = NoLane)
                   => counts' = counts /\ tracked_ids' = tracked_ids ]_vars

\* C4 witness: a ledger with a counted track, after a call whose only object is
\* in no lane
C4_Witness ==
    /\ ncalls = 2
    /\ Len(tracked_objects) = 1
    /\ assign_lane(lanes, tracked_objects[1].bbox) = NoLane
    /\ \E l \in DOMAIN counts : counts[l] >= 1


(* ---------------------------------------------------------------------- *)
(* Claims about VideoProcessor.run and main (checked under Spec)           *)
(* ---------------------------------------------------------------------- *)

\* the four resources run's finally clause releases
RunResources == { "cap", "out", "pbar", "windows" }

TornDown == \A r \in RunResources : released[r] = 1

\* run has returned or raised
RunEnded == run_result # None

\* the rows Step 5 writes for the tracked objects objs of frame k, from element i on
RECURSIVE RowsFrom(_, _, _)
RowsFrom(objs, k, i) ==
    IF i > Len(objs) THEN <<>>
    ELSE LET lane_id == assign_lane(lanes, objs[i].bbox)
             rest == RowsFrom(objs, k, i + 1)
         IN  IF lane_id # NoLane
             THEN << LogRow(objs[i].track_id, lane_id, k, video.fps) >> \o rest
             ELSE rest

\* the log of a run whose frames 1..n were processed to their end
RECURSIVE ExpectedLog(_)
ExpectedLog(n) ==
    IF n = 0 THEN <<>> ELSE ExpectedLog(n - 1) \o RowsFrom(history[n], n, 1)

\* the ledger of a run whose frames 1..n were processed to their end
RECURSIVE ExpectedLedger(_)
ExpectedLedger(n) ==
    IF n = 0 THEN NewLedger(lanes)
    ELSE update_counts(lanes, ExpectedLedger(n - 1), history[n])

\* C5 (teardown exactly once): however run leaves the frame loop, the input
\* stream, the output writer, the progress bar and the preview windows have
\* each been released exactly once when run returns or raises, and never
\* more than once.
C5_ReleasedExactlyOnce ==
    /\ \A r \in RunResources : released[r] <= 1
    /\ (pc = "run_exit" \/ RunEnded) =>
          /\ TornDown
          /\ opened \cap { "cap", "out", "pbar" } = {}

\* C5 witness: run has raised out of the frame body with the four released once
C5_Witness ==
    /\ run_result = "raised"
    /\ exit_path = "exception"
    /\ TornDown

\* C6 (log closed on every exit path): once run has ended, by return or by
\* an exception, and main has stopped, the CSV file has been closed exactly
\* once.
C6_LogClosedOnce ==
    (RunEnded /\ pc \in { "done", "m_crashed" }) => released["csv"] = 1

\* C7 (propagate after cleanup): an exception of the frame body is still in
\* flight after the teardown and run raises it, never returning normally; a
\* KeyboardInterrupt is absorbed and run returns normally after the teardown,
\* as it does at end of stream and on the quit key.
C7_PropagateAfterTeardown ==
    /\ pc = "run_exit" =>
          /\ TornDown
          /\ (exit_path = "exception") = (exc = "Exception")
    /\ RunEnded =>
          /\ TornDown
          /\ exit_path = "exception" => run_result = "raised" /\ exc = "Exception"
          /\ exit_path \in { "interrupt", "eos", "quit" } =>
                run_result = "returned" /\ exc = None

\* C7 witness: an interrupted run has returned normally after the teardown
C7_Witness ==
    /\ exit_path = "interrupt"
    /\ run_result = "returned"
    /\ TornDown

\* C8 (interruption keeps whole frames): when run ends after a
\* KeyboardInterrupt, with N the number of frames whose processing completed,
\* the output holds N frames, the log holds exactly the rows of frames 1..N,
\* the ledger is that of frames 1..N, and the resources are released.
C8_InterruptKeepsWholeFrames ==
    (RunEnded /\ exit_path = "interrupt") =>
       /\ Len(out) = pbar_n
       /\ log = ExpectedLog(pbar_n)
       /\ Ledger(counts, tracked_ids) = ExpectedLedger(pbar_n)
       /\ TornDown

\* C9 (one row per written frame and in-lane object): when run has ended at
\* end of stream or on the quit key, every frame k in the output and every
\* tracked object of frame k that is in a lane has exactly one row
\* (track_id, lane_id, k, k/fps) in the log.
C9_OneRowPerWrittenFrame ==
    (RunEnded /\ exit_path \in { "eos", "quit" }) =>
       \A n \in 1..Len(out) :
          LET k == out[n]
              objs == history[k]
          IN  \A i \in 1..Len(objs) :
                 LET lane_id == assign_lane(lanes, objs[i].bbox)
                 IN  lane_id # NoLane =>
                        Cardinality({ j \in 1..Len(log) :
                            log[j] = LogRow(objs[i].track_id, lane_id, k, video.fps) }) = 1

\* C10 (quit stops processing): once the quit key has been seen, no further
\* frame is read, detected, tracked, attributed, written or logged and run
\* goes to its teardown; with show_preview false the key is never polled and
\* the loop is never left by the quit key.
C10_QuitStopsProcessing ==
    /\ [][ exit_path = "quit" =>
              /\ UNCHANGED << frame_idx, det_frame, history, ncalls, counts,
                              tracked_ids, out, log, pbar_n, polls >>
              /\ pc' \in { "run_exit", "m_close", "m_summary", "done" } ]_vars
    /\ [](exit_path = "quit" =>
              /\ show_preview
              /\ pc \in { "finally", "run_exit", "m_close", "m_summary", "done" }
              /\ Len(out) = frame_idx /\ polls = frame_idx)
    /\ [](~show_preview => polls = 0 /\ exit_path \in { None, "eos", "interrupt", "exception" })

\* C10 witness: a run stopped by the quit key at frame 1 has ended with one
\* frame read and written and nothing logged for it
C10_Witness ==
    /\ exit_path = "quit"
    /\ pc = "done"
    /\ frame_idx = 1
    /\ out = << 1 >>
    /\ pbar_n = 0


\* C11 (frame order): the frame index starts at 0 and rises by exactly one per
\* successful read, the output holds frames 1, 2, ... in order, the frame
\* indices of the log rows never decrease, and a row is written only during
\* Step 5 of the frame just written: its index is frame_idx, which is the
\* number of frames written so far, and no row is of a frame not yet read.
C11_FrameOrder ==
    /\ [](/\ out = [ i \in 1..Len(out) |-> i ]
          /\ Len(out) <= frame_idx
          /\ \A j \in 1..Len(log) :
                /\ log[j].Frame >= 1 /\ log[j].Frame <= Len(out)
                /\ \A i \in 1..j : log[i].Frame <= log[j].Frame)
    /\ [][ /\ frame_idx' \in { frame_idx, frame_idx + 1 }
           /\ frame_idx' # frame_idx => pc = "read" /\ Len(out) = frame_idx
           /\ log' # log =>
                 /\ pc = "log"
                 /\ Len(log') = Len(log) + 1
                 /\ SubSeq(log', 1, Len(log)) = log
                 /\ log'[Len(log')].Frame = frame_idx
                 /\ frame_idx = Len(out)
                 /\ out' = out /\ frame_idx' = frame_idx ]_vars

\* C11 witness: rows of frame 1 and of frame 2 in the log, after both frames
\* were written
C11_Witness ==
    /\ out = << 1, 2 >>
    /\ Len(log) >= 2
    /\ log[1].Frame = 1
    /\ log[Len(log)].Frame = 2


\* the rows of the log that name track t
RowsOfTrack(t) == { j \in 1..Len(log) : log[j].VehicleID = t }

\* track t is among the tracked objects of every frame, each time with its
\* centroid assigned to lane l
StaysInLane(t, l) ==
    /\ Len(history) >= 1
    /\ \A k \in 1..Len(history) :
          \E i \in 1..Len(history[k]) :
             /\ history[k][i].track_id = t
             /\ assign_lane(lanes, history[k][i].bbox) = l

\* C12 (one count, F rows): when run has completed at end of stream over F
\* frames, a track that assign_lane put in the same lane L in every frame is
\* counted once in L (L's count is the size of its set, which holds the
\* track) and in no other lane, and the log holds exactly F rows for it, one
\* per frame index 1..F, all with lane L.
C12_OneCountManyRows ==
    (RunEnded /\ exit_path = "eos") =>
       \A t \in TrackIds : \A l \in DOMAIN counts :
          StaysInLane(t, l) =>
             /\ t \in tracked_ids[l]
             /\ counts[l] = Cardinality(tracked_ids[l])
             /\ counts[l] = Cardinality(UNION { PresentedIn(history[k], l) :
                                                  k \in 1..Len(history) })
             /\ \A m \in DOMAIN counts \ { l } : t \notin tracked_ids[m]
             /\ Cardinality(RowsOfTrack(t)) = Len(history)
             /\ \A k \in 1..Len(history) :
                   \E j \in RowsOfTrack(t) : log[j] = LogRow(t, l, k, video.fps)

\* C12 witness: a completed run of two frames in which track 1 stayed in lane
\* 2, counted once, with two rows
C12_Witness ==
    /\ RunEnded /\ exit_path = "eos"
    /\ Len(history) = 2
    /\ StaysInLane(1, 2)
    /\ counts[2] = 1
    /\ Cardinality(RowsOfTrack(1)) = 2


\* main has stopped on an error of its Steps 2 and 3, before run was entered
InitFailed == pc = "m_crashed" /\ ~RunEnded

\* C13 (fail fast at INIT, nothing left open): when a configuration or
\* resource error stops main before run, no frame has been read, detected,
\* written or logged, and no resource acquired so far (the input stream, the
\* CSV file) is still open.
C13_InitErrorLeavesNothingOpen ==
    InitFailed =>
       /\ frame_idx = 0 /\ det_frame = 0 /\ history = <<>>
       /\ out = <<>> /\ log = <<>> /\ ncalls = 0
       /\ opened = {}


(* ---------------------------------------------------------------------- *)
(* Claims about the functions (checked under SpecPure)                     *)
(* ---------------------------------------------------------------------- *)

\* function f has been applied
Applied(f) == call.fn = f /\ call.done

\* c is s / 2 truncated towards zero
IsTruncHalf(s, c) ==
    IF s >= 0 THEN 2 * c <= s /\ s < 2 * c + 2
    ELSE 2 * c >= s /\ s > 2 * c - 2

\* the integer-truncated centroid of bbox, found by search
TruncCentroid(bbox) ==
    CHOOSE pt \in GridCoords \X GridCoords :
       /\ IsTruncHalf(bbox[1] + bbox[3], pt[1])
       /\ IsTruncHalf(bbox[2] + bbox[4], pt[2])

\* twice the signed area of the triangle a, b, pt
Cross(a, b, pt) == (b[1] - a[1]) * (pt[2] - a[2]) - (b[2] - a[2]) * (pt[1] - a[1])

\* pt is inside or on the boundary of the convex polygon: it is on the same
\* side of every edge
InsideConvex(polygon, pt) ==
    LET n == Len(polygon)
        Side(i) == Cross(polygon[i], polygon[(i % n) + 1], pt)
    IN  \/ \A i \in 1..n : Side(i) >= 0
        \/ \A i \in 1..n : Side(i) <= 0

\* the positions in the lanes dict of the lanes that hold pt
Holding(lns, pt) == { i \in 1..Len(lns) : InsideConvex(lns[i].polygon, pt) }

Min(S) == CHOOSE x \in S : \A y \in S : x <= y

\* C14 as stated: assign_lane returns None when no polygon holds the
\* truncated centroid (boundary included), and otherwise the lowest
\* identifier among the lanes that hold it, for any lanes mapping.
C14_LowestIdentifier ==
    Applied("assign_lane") =>
       LET lns == call.args[1]
           H == Holding(lns, TruncCentroid(call.args[2]))
       IN  call.result = IF H = {} THEN NoLane
                         ELSE Min({ lns[i].lane_id : i \in H })

\* C14 amended: assign_lane returns None when no polygon holds the truncated
\* centroid (boundary included), the lane when exactly one holds it, and
\* otherwise the lane that comes first in the mapping's iteration order,
\* which is the lowest identifier only for a mapping built in ascending
\* identifier order.
C14_FirstInOrder ==
    Applied("assign_lane") =>
       LET lns == call.args[1]
           H == Holding(lns, TruncCentroid(call.args[2]))
       IN  call.result = IF H = {} THEN NoLane ELSE lns[Min(H)].lane_id

\* C14 witness: a centroid on the boundary of lane 1 and inside lane 2 of the
\* descending mapping, assigned to lane 2, the first in order
C14_Witness ==
    /\ Applied("assign_lane")
    /\ call.args[1] = DescendingLanes
    /\ Holding(DescendingLanes, TruncCentroid(call.args[2])) = { 1, 2 }
    /\ PointPolygonTest(DescendingLanes[2].polygon, TruncCentroid(call.args[2])) = 0
    /\ call.result = 2


\* the integer pixels a box covers, its corners included
Pixels(b) == (b[1]..b[3]) \X (b[2]..b[4])

\* intersection and union of two boxes, counted in pixels
PixelIou(a, b) ==
    [ inter |-> Cardinality(Pixels(a) \cap Pixels(b)),
      union |-> Cardinality(Pixels(a) \cup Pixels(b)) ]

PixelIouTable ==
    [ a \in DetBoxes \cup IouBoxes |->
        [ b \in TrackBoxes \cup IouBoxes |-> PixelIou(a, b) ] ]

\* the detections whose IoU with the box is strictly greater than 0.5
Clearing(detections, box) ==
    { j \in 1..Len(detections) :
        LET p == PixelIouTable[detections[j].bbox][box]
        IN  2 * p.inter > p.union }

\* C15: update returns one tracked object per track, in the same order and
\* with the track's identifier and box; each carries the confidence and class
\* of the lowest-index detection whose IoU with the tracked box is strictly
\* greater than 0.5, or None for confidence, class id and class name when no
\* detection clears the threshold.
C15_Reconciliation ==
    Applied("update") =>
       LET detections == call.args[1]
           tracks == call.args[2]
       IN  /\ Len(call.result) = Len(tracks)
           /\ \A i \in 1..Len(tracks) :
                 LET o == call.result[i]
                     M == Clearing(detections, tracks[i].bbox)
                 IN  /\ o.track_id = tracks[i].track_id
                     /\ o.bbox = tracks[i].bbox
                     /\ M = {} => /\ o.confidence = Null
                                  /\ o.class_id = Null
                                  /\ o.class_name = Null
                     /\ M # {} =>
                          LET d == detections[Min(M)]
                          IN  /\ o.confidence = Some(d.confidence)
                              /\ o.class_id = Some(d.class_id)
                              /\ o.class_name = Some(d.class_name)

\* C15 witness: two detections clear the threshold for track 7 and the first
\* is taken; a detection at exactly 0.5 leaves the other track unlabelled
C15_Witness ==
    /\ Applied("update")
    /\ Len(call.args[2]) = 2
    /\ call.args[2][1].track_id = 7
    /\ Clearing(call.args[1], call.args[2][1].bbox) = { 1, 2 }
    /\ call.args[1][1].class_name # call.args[1][2].class_name
    /\ call.result[1].class_name = Some(call.args[1][1].class_name)
    /\ call.result[2].class_name = Null

\* C16: for valid integer boxes, _compute_iou(a, a) is 1; it is 0, returned
\* before the division, when the boxes share no pixel; and otherwise it is
\* overlap / (areaA + areaB - overlap) with inclusive widths and heights.
C16_Iou ==
    Applied("_compute_iou") =>
       LET a == call.args[1]
           b == call.args[2]
           r == call.result
           p == PixelIouTable[a][b]
           areaA == Cardinality(Pixels(a))
           areaB == Cardinality(Pixels(b))
       IN  /\ a = b => r.divided /\ r.num = r.den
           /\ p.inter = 0 => r.num = 0 /\ ~r.divided
           /\ p.inter # 0 => /\ r.divided
                             /\ r.den > 0
                             /\ r.num * (areaA + areaB - p.inter) = p.inter * r.den
                             /\ r.num * p.union = p.inter * r.den
           /\ areaA = (a[3] - a[1] + 1) * (a[4] - a[2] + 1)

\* C16 witness: two boxes that share one column of pixels, IoU 2/6
C16_Witness ==
    /\ Applied("_compute_iou")
    /\ call.args = << <<0, 0, 1, 1>>, <<1, 0, 2, 1>> >>
    /\ call.result = [ num |-> 2, den |-> 6, divided |-> TRUE ]


(* ---------------------------------------------------------------------- *)
(* Termination of run (checked under SpecFair)                             *)
(* ---------------------------------------------------------------------- *)

\* run has left its frame loop and performed the teardown
Closed ==
    /\ TornDown
    /\ pc \in { "run_exit", "m_close", "m_summary", "done", "m_crashed" }

\* run has been entered
RunEntered == pc \notin { "m_start", "m_detector", "m_counter", "m_logger",
                          "m_processor" } /\ ~InitFailed

\* C17: every run that is entered eventually reaches the teardown; when no
\* call raised, the loop was left by the first failed read, by the quit key
\* or by an interrupt; no state of an entered run without the teardown
\* is terminal; and after a failed read no frame is read and the loop is not
\* re-entered.
C17_EventuallyClosed ==
    /\ (pc = "run_start") ~> Closed
    /\ [](pc \in { "finally", "run_exit" } =>
            /\ exit_path \in { "eos", "quit", "interrupt", "exception" }
            /\ exit_path = "exception" <=> exc = "Exception")
    /\ []((RunEntered /\ ~Closed) => ENABLED <<Step>>_vars)
    /\ [][ exit_path = "eos" =>
              /\ frame_idx' = frame_idx
              /\ pc' \notin LoopPcs
              /\ exit_path' = "eos" ]_vars

\* C17 witness: a run ended by the first failed read after MaxFrames frames,
\* torn down
C17_Witness ==
    /\ Closed
    /\ exit_path = "eos"
    /\ frame_idx = MaxFrames
    /\ Len(out) = MaxFrames


(* ---------------------------------------------------------------------- *)
(* Log against ledger (checked under Spec)                                 *)
(* ---------------------------------------------------------------------- *)

\* the row is about an object of frame row.Frame whose lane, as update_counts
\* computed it for that frame, is row.Lane, and the ledger has counted it there
RowAgrees(row) ==
    /\ row.Frame \in 1..Len(history)
    /\ \E i \in 1..Len(history[row.Frame]) :
          LET obj == history[row.Frame][i]
          IN  /\ obj.track_id = row.VehicleID
              /\ assign_lane(lanes, obj.bbox) = row.Lane
    /\ row.VehicleID \in PresentedIn(history[row.Frame], row.Lane)
    /\ row.Lane \in DOMAIN tracked_ids
    /\ row.VehicleID \in tracked_ids[row.Lane]

\* C18: every log row (T, L, k) carries the lane the ledger computed for T in
\* frame k and T is in L's counted set, so the (track, lane) pairs of the log
\* are always among the ledger's counted pairs; the logging step appends a row
\* whose track is already counted and leaves counts and counted sets unchanged.
C18_LogWithinLedger ==
    /\ [](\A j \in 1..Len(log) : RowAgrees(log[j]))
    /\ [][ log' # log =>
              /\ counts' = counts
              /\ tracked_ids' = tracked_ids
              /\ log'[Len(log')].VehicleID \in tracked_ids[log'[Len(log')].Lane] ]_vars

\* C18 witness: track 1 logged in lane 1 for frame 1 and in lane 2 for frame 2,
\* counted in both
C18_Witness ==
    /\ Len(log) >= 2
    /\ \E i, j \in 1..Len(log) :
          /\ log[i].VehicleID = 1 /\ log[i].Lane = 1 /\ log[i].Frame = 1
          /\ log[j].VehicleID = 1 /\ log[j].Lane = 2 /\ log[j].Frame = 2
    /\ 1 \in tracked_ids[1] \cap tracked_ids[2]


(* ---------------------------------------------------------------------- *)
(* define_dynamic_lanes (checked under SpecPure)                           *)
(* ---------------------------------------------------------------------- *)

\* the horizontal extent of a lane's polygon
LaneWidth(lane) == lane.polygon[2][1] - lane.polygon[1][1]

\* C19: define_dynamic_lanes yields lanes 1..N in ascending order, all of the
\* same width, and every pixel (x, y) with 0 <= x < width and
\* int(height * ratio) <= y < height lies in at least one lane.
C19_LanesSpanFrame ==
    Applied("define_dynamic_lanes") =>
       LET width == call.args[1]
           height == call.args[2]
           lns == call.result
       IN  /\ Len(lns) = call.args[3]
           /\ \A i \in 1..Len(lns) : lns[i].lane_id = i
           /\ \A i, j \in 1..Len(lns) : LaneWidth(lns[i]) = LaneWidth(lns[j])
           /\ \A x \in 0..(width - 1) : \A y \in StartY(height)..(height - 1) :
                 Holding(lns, << x, y >>) # {}


(* ---------------------------------------------------------------------- *)
(* The label of process_frame (checked under SpecPure)                     *)
(* ---------------------------------------------------------------------- *)

\* C20: the label of a tracked object is its track id, its class name or a
\* placeholder that is not None, and its confidence with two decimals, 0.00
\* when the confidence is None; None is never rendered.
C20_LabelNeverNull ==
    Applied("label") =>
       LET obj == call.args[1]
           label == call.result
       IN  /\ label[1] = obj.track_id
           /\ label[2] # "None"
           /\ obj.class_name # Null => label[2] = obj.class_name[1]
           /\ obj.confidence = Null => label[3] = << 0, 0 >>
           /\ obj.confidence # Null =>
                 \E h \in 0..100 :
                    /\ label[3] = << h \div 100, h % 100 >>
                    /\ 10 * h - 5 <= obj.confidence[1]
                    /\ obj.confidence[1] < 10 * h + 5

====
